---- MODULE Spec2Model ----
(***************************************************************************)
(* Model of backend/scripts/archive/fix-ai-permission-controller.py: a     *)
(* one-pass line repair of aiPermissionController.ts.  Lines and the file  *)
(* text are strings; the header regex, the substring test, strip(), split  *)
(* and join are computed character by character.  The scan index i is     *)
(* 0-based as in the script, so lines[i] of the script is lines[i + 1].    *)
(***************************************************************************)
EXTENDS Integers, Sequences, FiniteSets, TLC

(* ---------------------------- bounds ----------------------------------- *)
MaxLen == 4
MaxCoreLen == 6
MaxRuns == 2
MaxFairLen == 3

(* ------------------------- string helpers ------------------------------ *)
\* s in t  (Python substring containment)
Contains(sub, s) ==
  \E k \in 1..(Len(s) - Len(sub) + 1) : SubSeq(s, k, k + Len(sub) - 1) = sub

StartsWith(pre, s) ==
  /\ Len(s) >= Len(pre)
  /\ SubSeq(s, 1, Len(pre)) = pre

\* characters str.strip() removes
Whitespace == {" ", "\t", "\r", "\f", "\n"}

RECURSIVE LStrip(_)
LStrip(s) ==
  IF Len(s) > 0 /\ SubSeq(s, 1, 1) \in Whitespace
  THEN LStrip(SubSeq(s, 2, Len(s)))
  ELSE s

RECURSIVE RStrip(_)
RStrip(s) ==
  IF Len(s) > 0 /\ SubSeq(s, Len(s), Len(s)) \in Whitespace
  THEN RStrip(SubSeq(s, 1, Len(s) - 1))
  ELSE s

\* str.strip()
Strip(s) == RStrip(LStrip(s))

\* positions of the line terminators of s
NewlinesOf(s) == { k \in 1..Len(s) : SubSeq(s, k, k) = "\n" }

\* content.split('\n'): the piece before the first terminator, then the rest
RECURSIVE Split(_)
Split(s) ==
  LET P == NewlinesOf(s)
  IN IF P = {} THEN <<s>>
     ELSE LET k == CHOOSE m \in P : \A j \in P : m <= j
          IN <<SubSeq(s, 1, k - 1)>> \o Split(SubSeq(s, k + 1, Len(s)))

\* '\n'.join(ls)
RECURSIVE Join(_)
Join(ls) ==
  IF Len(ls) = 0 THEN ""
  ELSE IF Len(ls) = 1 THEN ls[1]
  ELSE ls[1] \o "\n" \o Join(Tail(ls))

(* ----------------------- the script's patterns ------------------------- *)
\* \w of the header regex
WordChars ==
  {"a","b","c","d","e","f","g","h","i","j","k","l","m","n","o","p","q","r",
   "s","t","u","v","w","x","y","z","A","B","C","D","E","F","G","H","I","J",
   "K","L","M","N","O","P","Q","R","S","T","U","V","W","X","Y","Z","0","1",
   "2","3","4","5","6","7","8","9","_"}

HeaderPrefix == "export async function "

\* length of the longest run of \w characters at the start of s
RECURSIVE WordRun(_)
WordRun(s) ==
  IF Len(s) > 0 /\ SubSeq(s, 1, 1) \in WordChars
  THEN 1 + WordRun(SubSeq(s, 2, Len(s)))
  ELSE 0

\* current_function is None (<<>>) or a name (<<name>>)
None == <<>>

\* re.match(r'^export async function (\w+)\(', line): <<>> when there is no
\* match, else <<group(1)>>
FuncMatch(line) ==
  IF ~StartsWith(HeaderPrefix, line) THEN None
  ELSE LET rest == SubSeq(line, Len(HeaderPrefix) + 1, Len(line))
           n == WordRun(rest)
       IN IF n >= 1 /\ Len(rest) > n /\ SubSeq(rest, n + 1, n + 1) = "("
          THEN <<SubSeq(rest, 1, n)>>
          ELSE None

Signature == "handleControllerError(error, res, ',"

\* a test at the start of the line only
IsMalformedAtStart(line) == StartsWith(Signature, LStrip(line))

\* a test for the call's name alone
IsMalformedLoose(line) == Contains("handleControllerError(", line)

\* "handleControllerError(error, res, '," in line
IsMalformed(line) == Contains(Signature, line)

\* a formatting that leaves None out
FmtNoneEmpty(cf) == IF cf = None THEN "" ELSE cf[1]

\* formatting of {current_function} in the f-string
Fmt(cf) == IF cf = None THEN "None" ELSE cf[1]

\* a replacement that keeps the stray quote and comma
ReplacementKeepsComma(cf) ==
  "    handleControllerError(error, res, ', 'AiPermissionController."
    \o Fmt(cf) \o "');"

\* the replacement line of the f-string
Replacement(cf) ==
  "    handleControllerError(error, res, 'AiPermissionController."
    \o Fmt(cf) \o "');"

\* a comparison without strip()
IsLoneBraceExact(line) == line = "}"

\* lines[k].strip() == '}'
IsLoneBrace(line) == Strip(line) = "}"

\* a marker without indentation
ClosingMarkerFlat == "}"

\* the line added back for a double closing brace
ClosingMarker == "  }"

\* a test of the next line only
DoubleBraceAtNextOnly(ls, k) ==
  /\ k + 1 < Len(ls)
  /\ IsLoneBrace(ls[k + 2])

\* a test without the look-ahead to the second brace
DoubleBraceAtNoLookahead(ls, k) == IsLoneBrace(ls[k + 1])

\* the inner loop's test at index k (0-based) of ls
DoubleBraceAt(ls, k) ==
  /\ IsLoneBrace(ls[k + 1])
  /\ k + 1 < Len(ls)
  /\ IsLoneBrace(ls[k + 2])

\* the line read with its surrounding blanks removed
LineAtStripped(ls, k) == Strip(ls[k + 1])

\* line = lines[i]
LineAt(ls, k) == ls[k + 1]

\* a context that is set by the first header only
UpdateContextKeepFirst(cur, line) ==
  IF cur = None /\ FuncMatch(line) # None THEN FuncMatch(line) ELSE cur

\* current_function after the header test on line
UpdateContext(cur, line) ==
  IF FuncMatch(line) # None THEN FuncMatch(line) ELSE cur

\* the index after the pair when the second brace is not skipped
AfterPairNoSkip(k) == k + 1

\* the index after a double closing brace found at k: i += 1 to skip the
\* second brace, break, then the outer loop's i += 1
AfterPair(k) == (k + 1) + 1

(* ------------------------------ inputs --------------------------------- *)
HeaderGet == "export async function getItem(req, res) {"
HeaderSet == "export async function setItem(req, res) {"
BadCall == "    handleControllerError(error, res, ',"
BothLine == "export async function both(req, res) { handleControllerError(error, res, ',"
Junk == "    extraJunk"
Brace2 == "  }"
Brace0 == "}"

LineAlphabet == {HeaderGet, HeaderSet, BadCall, BothLine, Junk, Brace2, Brace0, ""}

\* the lines of a repair, for longer texts
CoreAlphabet == {HeaderGet, BadCall, Junk, Brace2}

\* the example scenario of the specification
ExampleInput ==
  << HeaderGet, "  try {", "    doWork();", "  } catch (error) {",
     BadCall, Junk, Brace2, Brace2, Brace0 >>

\* two headers around two repairs; a header discarded inside a repair
Scenarios ==
  { ExampleInput,
    << HeaderGet, BadCall, Brace2, Brace0, HeaderSet, BadCall, Junk, Brace0, Brace2, Brace0 >>,
    << Brace0, Brace0, HeaderSet, BadCall, Brace0, Junk, Brace2, Brace2, Brace2, Brace2 >>,
    << HeaderGet, BadCall, HeaderSet, BadCall, Brace2, Brace2, BadCall, Brace0 >>,
    << HeaderGet, HeaderSet, BadCall, HeaderGet, Brace2, Brace0, Junk, BadCall >> }

InputLines ==
  UNION { [1..n -> LineAlphabet] : n \in 1..MaxLen }
    \cup UNION { [1..n -> CoreAlphabet] : n \in 1..MaxCoreLen }
    \cup Scenarios

\* the texts the target file may hold before the first run
InputTexts == { Join(ls) : ls \in InputLines }

(* ------------------------------- state --------------------------------- *)
VARIABLES
  file,              \* text of src/controllers/aiPermissionController.ts
  pc,                \* position of the script
  run,               \* number of the current run of the script
  content,           \* text read from the file
  lines,             \* content.split('\n')
  new_lines,         \* output accumulator
  current_function,  \* None or <<name>>
  i,                 \* scan index, 0-based
  origin,            \* per output line: index (1-based) of the input line
                     \* copied, 0 for a replacement line, -1 for a marker
  visited,           \* <<index (0-based), loop>> of each read of lines[i]
  regions            \* repaired regions, in order: trigger and last index
                     \* (0-based), position of the replacement in new_lines,
                     \* whether the double brace was found

vars == <<file, pc, run, content, lines, new_lines, current_function, i,
          origin, visited, regions>>

Init ==
  /\ file \in InputTexts
  /\ pc = "start"
  /\ run = 1
  /\ content = ""
  /\ lines = <<>>
  /\ new_lines = <<>>
  /\ current_function = None
  /\ i = 0
  /\ origin = <<>>
  /\ visited = <<>>
  /\ regions = <<>>

\* with open(file_path, 'r') ... f.read(); split; initialisations
ReadFile ==
  /\ pc = "start"
  /\ content' = file
  /\ lines' = Split(file)
  /\ new_lines' = <<>>
  /\ current_function' = None
  /\ i' = 0
  /\ pc' = "scan"
  /\ UNCHANGED <<file, run, origin, visited, regions>>

\* an outer loop that builds the replacement from the context held before
\* the header test
ScanLineOldContext ==
  /\ pc = "scan"
  /\ i < Len(lines)
  /\ LET line == LineAt(lines, i)
         cf == UpdateContext(current_function, line)
     IN /\ current_function' = cf
        /\ visited' = Append(visited, <<i, "scan">>)
        /\ IF IsMalformed(line)
           THEN /\ new_lines' = Append(new_lines, Replacement(current_function))
                /\ origin' = Append(origin, 0)
                /\ regions' = Append(regions,
                                [trigger |-> i, last |-> i,
                                 out |-> Len(new_lines) + 1, closed |-> FALSE])
                /\ i' = i + 1
                /\ pc' = "skip"
           ELSE /\ new_lines' = Append(new_lines, line)
                /\ origin' = Append(origin, i + 1)
                /\ regions' = regions
                /\ i' = i + 1
                /\ pc' = "scan"
  /\ UNCHANGED <<file, run, content, lines>>

\* one iteration of the outer loop, up to the inner loop when the line is
\* malformed
ScanLine ==
  /\ pc = "scan"
  /\ i < Len(lines)
  /\ LET line == LineAt(lines, i)
         cf == UpdateContext(current_function, line)
     IN /\ current_function' = cf
        /\ visited' = Append(visited, <<i, "scan">>)
        /\ IF IsMalformed(line)
           THEN /\ new_lines' = Append(new_lines, Replacement(cf))
                /\ origin' = Append(origin, 0)
                /\ regions' = Append(regions,
                                [trigger |-> i, last |-> i,
                                 out |-> Len(new_lines) + 1, closed |-> FALSE])
                /\ i' = i + 1
                /\ pc' = "skip"
           ELSE /\ new_lines' = Append(new_lines, line)
                /\ origin' = Append(origin, i + 1)
                /\ regions' = regions
                /\ i' = i + 1
                /\ pc' = "scan"
  /\ UNCHANGED <<file, run, content, lines>>

\* an inner loop that does not advance on a line it discards
SkipLineStuck ==
  /\ pc = "skip"
  /\ i < Len(lines)
  /\ visited' = Append(visited, <<i, "skip">>)
  /\ IF DoubleBraceAt(lines, i)
     THEN /\ new_lines' = Append(new_lines, ClosingMarker)
          /\ origin' = Append(origin, -1)
          /\ regions' = [regions EXCEPT ![Len(regions)].last = i + 1,
                                        ![Len(regions)].closed = TRUE]
          /\ i' = AfterPair(i)
          /\ pc' = "scan"
     ELSE /\ regions' = [regions EXCEPT ![Len(regions)].last = i]
          /\ UNCHANGED <<i, new_lines, origin, pc>>
  /\ UNCHANGED <<file, run, content, lines, current_function>>

\* an inner loop that keeps tracking function headers
SkipLineTracking ==
  /\ pc = "skip"
  /\ i < Len(lines)
  /\ visited' = Append(visited, <<i, "skip">>)
  /\ current_function' = UpdateContext(current_function, lines[i + 1])
  /\ IF DoubleBraceAt(lines, i)
     THEN /\ new_lines' = Append(new_lines, ClosingMarker)
          /\ origin' = Append(origin, -1)
          /\ regions' = [regions EXCEPT ![Len(regions)].last = i + 1,
                                        ![Len(regions)].closed = TRUE]
          /\ i' = AfterPair(i)
          /\ pc' = "scan"
     ELSE /\ regions' = [regions EXCEPT ![Len(regions)].last = i]
          /\ i' = i + 1
          /\ UNCHANGED <<new_lines, origin, pc>>
  /\ UNCHANGED <<file, run, content, lines>>

\* one iteration of the inner loop
SkipLine ==
  /\ pc = "skip"
  /\ i < Len(lines)
  /\ visited' = Append(visited, <<i, "skip">>)
  /\ IF DoubleBraceAt(lines, i)
     THEN /\ new_lines' = Append(new_lines, ClosingMarker)
          /\ origin' = Append(origin, -1)
          /\ regions' = [regions EXCEPT ![Len(regions)].last = i + 1,
                                        ![Len(regions)].closed = TRUE]
          /\ i' = AfterPair(i)
          /\ pc' = "scan"
     ELSE /\ regions' = [regions EXCEPT ![Len(regions)].last = i]
          /\ i' = i + 1
          /\ UNCHANGED <<new_lines, origin, pc>>
  /\ UNCHANGED <<file, run, content, lines, current_function>>

\* the inner loop runs off the end of the input; then the outer i += 1
SkipEnd ==
  /\ pc = "skip"
  /\ i >= Len(lines)
  /\ i' = i + 1
  /\ pc' = "scan"
  /\ UNCHANGED <<file, run, content, lines, new_lines, current_function,
                 origin, visited, regions>>

\* the outer loop's test fails
ScanEnd ==
  /\ pc = "scan"
  /\ i >= Len(lines)
  /\ pc' = "open"
  /\ UNCHANGED <<file, run, content, lines, new_lines, current_function, i,
                 origin, visited, regions>>

\* open(file_path, 'w'): the file is truncated
OpenWrite ==
  /\ pc = "open"
  /\ file' = ""
  /\ pc' = "write"
  /\ UNCHANGED <<run, content, lines, new_lines, current_function, i,
                 origin, visited, regions>>

\* f.write('\n'.join(new_lines)) and the close of the with block
WriteClose ==
  /\ pc = "write"
  /\ file' = Join(new_lines)
  /\ pc' = "done"
  /\ UNCHANGED <<run, content, lines, new_lines, current_function, i,
                 origin, visited, regions>>

\* the script is started again on the file it left
Rerun ==
  /\ pc = "done"
  /\ run < MaxRuns
  /\ run' = run + 1
  /\ pc' = "start"
  /\ content' = ""
  /\ lines' = <<>>
  /\ new_lines' = <<>>
  /\ current_function' = None
  /\ i' = 0
  /\ origin' = <<>>
  /\ visited' = <<>>
  /\ regions' = <<>>
  /\ UNCHANGED file

Next ==
  \/ ReadFile
  \/ ScanLine
  \/ SkipLine
  \/ SkipEnd
  \/ ScanEnd
  \/ OpenWrite
  \/ WriteClose
  \/ Rerun

Spec == Init /\ [][Next]_vars

\* the texts of the runs checked for termination
FairInputTexts ==
  { Join(ls) : ls \in UNION { [1..n -> LineAlphabet] : n \in 1..MaxFairLen }
                        \cup Scenarios }

FairInit == Init /\ file \in FairInputTexts

\* the script is sequential and nothing suspends it: a step of either loop
\* that can be taken is taken
FairSpec ==
  /\ FairInit
  /\ [][Next]_vars
  /\ WF_vars(ScanLine)
  /\ WF_vars(SkipLine)
  /\ WF_vars(SkipEnd)
  /\ WF_vars(ScanEnd)

TypeOK ==
  /\ pc \in {"start", "scan", "skip", "open", "write", "done"}
  /\ run \in 1..MaxRuns
  /\ i \in 0..(Len(lines) + 1)
  /\ Len(origin) = Len(new_lines)

\* the scan of the current run is over
ScanOver == pc \in {"open", "write", "done"}

(* ------------------------------ claims --------------------------------- *)
\* the reads of lines[i] made so far
Visits == { visited[k] : k \in 1..Len(visited) }

\* positions of the output that hold a copied input line
CopiedPositions == { k \in 1..Len(origin) : origin[k] > 0 }

\* input lines (1-based) whose text matches the header pattern
HeaderIdx == { j \in 1..Len(lines) : FuncMatch(lines[j]) # None }

\* the error-report call that names the function name
LabelLine(name) ==
  "    handleControllerError(error, res, 'AiPermissionController."
    \o name \o "');"

\* C1: idempotence.  A run of the script on the file an earlier run wrote
\* writes back exactly the text it read, line for line.
C1_Idempotent ==
  (run >= 2 /\ pc = "done") => (file = content /\ new_lines = lines)

\* a second run is over on a text in which the first run made a repair and
\* folded a double brace
C1_Witness ==
  /\ run >= 2
  /\ pc = "done"
  /\ \E k \in 1..Len(lines) : lines[k] = LabelLine("getItem")
  /\ \E k \in 1..Len(lines) : lines[k] = "  }"
  /\ \E k \in 1..Len(lines) : FuncMatch(lines[k]) # None

\* C2: verbatim preservation.  The input lines copied to the output are
\* exactly those read by the outer loop that do not contain the malformed
\* signature; each is copied unchanged, and they keep their input order.
C2_VerbatimPreservation ==
  /\ Len(origin) = Len(new_lines)
  /\ \A k \in CopiedPositions : new_lines[k] = lines[origin[k]]
  /\ \A k, m \in CopiedPositions : k < m => origin[k] < origin[m]
  /\ { origin[k] : k \in CopiedPositions }
       = { v[1] + 1 : v \in { w \in Visits :
                                /\ w[2] = "scan"
                                /\ ~Contains(Signature, lines[w[1] + 1]) } }

\* a scan is over that copied two equal lines, one of them blank-padded, and
\* discarded a repaired region in between
C2_Witness ==
  /\ ScanOver
  /\ Len(regions) >= 1
  /\ \E k, m \in CopiedPositions :
        /\ origin[k] < regions[1].trigger + 1
        /\ origin[m] > regions[1].last + 1
        /\ new_lines[k] = new_lines[m]
        /\ new_lines[k] = "  }"

\* headers (1-based) strictly before input line t
HeadersBefore(t) == { j \in HeaderIdx : j < t }

\* headers (1-based) at or before input line t that the outer loop read
HeadersSeen(t) ==
  { j \in HeaderIdx : j <= t /\ <<j - 1, "scan">> \in Visits }

\* the largest element of a non-empty set of indices
Latest(S) == CHOOSE j \in S : \A m \in S : m <= j

\* C3 as stated: the replacement of every repair embeds the name of the
\* nearest header line that precedes the malformed line in the input (here
\* for the malformed lines that are not header lines themselves).
C3_NearestPrecedingHeader ==
  \A r \in 1..Len(regions) :
    LET H == HeadersBefore(regions[r].trigger + 1)
    IN (H # {} /\ regions[r].trigger + 1 \notin HeaderIdx) =>
         new_lines[regions[r].out] = LabelLine(FuncMatch(lines[Latest(H)])[1])

\* C3 (amended): the replacement of every repair embeds the name of the
\* nearest header line, at or before the malformed line, that the outer loop
\* read (a header discarded inside an earlier repair does not count; a header
\* on the malformed line itself does).
C3_ContextAttribution ==
  \A r \in 1..Len(regions) :
    LET H == HeadersSeen(regions[r].trigger + 1)
    IN H # {} =>
         new_lines[regions[r].out] = LabelLine(FuncMatch(lines[Latest(H)])[1])

\* a repair whose nearest read header has another name than an earlier read
\* header, and another repair after a discarded header
C3_Witness ==
  /\ ScanOver
  /\ \E r \in 1..Len(regions) :
        LET H == HeadersSeen(regions[r].trigger + 1)
        IN \E j \in H : /\ j < regions[r].trigger + 1
                        /\ FuncMatch(lines[j]) # FuncMatch(lines[Latest(H)])
  /\ \E r \in 1..Len(regions) :
        /\ HeadersSeen(regions[r].trigger + 1) # {}
        /\ HeadersBefore(regions[r].trigger + 1)
             \ HeadersSeen(regions[r].trigger + 1) # {}

\* line k (1-based) of ls is a lone closing brace after trimming
LoneAt(ls, k) == Strip(ls[k]) = "}"

\* number of lone closing brace lines of ls
BraceCount(ls) == Cardinality({ k \in 1..Len(ls) : LoneAt(ls, k) })

\* some index after the trigger t (0-based) starts a pair of lone braces
PairAfter(t) ==
  \E k \in (t + 2)..(Len(lines) - 1) : LoneAt(lines, k) /\ LoneAt(lines, k + 1)

\* input line k (0-based) lies in repaired region r
InRegion(r, k) == regions[r].trigger <= k /\ k <= regions[r].last

\* input lines (0-based) outside every repaired region
OutsideRegions ==
  { k \in 0..(Len(lines) - 1) : \A r \in 1..Len(regions) : ~InRegion(r, k) }

\* output positions written for repair r: from its replacement line up to
\* the next copied line or replacement
EmittedFor(r) ==
  { p \in regions[r].out..Len(new_lines) :
      \A q \in (regions[r].out + 1)..p : origin[q] = -1 }

\* C4 as stated: when a repair's malformed line is followed by a pair of lone
\* braces, one marker stands for the pair, and apart from that pair and that
\* marker the text has as many lone-brace lines after the scan as before.
C4_BraceCountElsewhereKept ==
  ScanOver =>
    \A r \in 1..Len(regions) :
      PairAfter(regions[r].trigger) =>
        /\ regions[r].closed
        /\ BraceCount(new_lines) - 1 = BraceCount(lines) - 2

\* C4 (amended): when a repair's malformed line is followed by a pair of lone
\* braces, the repair writes exactly one lone-brace line (the marker) for its
\* whole region, from the malformed line through the second brace of the
\* pair; the lone-brace lines outside all repaired regions are all kept, so
\* the output holds as many lone-brace lines as the input has outside the
\* repaired regions plus one for each repair that found its pair.
C4_BraceFolding ==
  ScanOver =>
    /\ \A r \in 1..Len(regions) :
         PairAfter(regions[r].trigger) =>
           /\ regions[r].closed
           /\ LoneAt(lines, regions[r].last) /\ LoneAt(lines, regions[r].last + 1)
           /\ Cardinality({ p \in EmittedFor(r) : LoneAt(new_lines, p) }) = 1
           /\ new_lines[regions[r].out + 1] = "  }"
    /\ BraceCount(new_lines)
         = Cardinality({ k \in OutsideRegions : LoneAt(lines, k + 1) })
           + Cardinality({ r \in 1..Len(regions) : regions[r].closed })

\* a repair found its pair after a remnant that holds a lone brace, with lone
\* braces before the malformed line and after the pair
C4_Witness ==
  /\ ScanOver
  /\ \E r \in 1..Len(regions) :
        /\ regions[r].closed
        /\ \E k \in 1..regions[r].trigger : LoneAt(lines, k)
        /\ \E k \in (regions[r].trigger + 2)..(regions[r].last - 1) : LoneAt(lines, k)
        /\ \E k \in (regions[r].last + 2)..Len(lines) : LoneAt(lines, k)

\* C5: truncation.  A repair whose malformed line is followed by no pair of
\* lone braces is the last one: the inner loop runs off the end of the input,
\* the output ends with that repair's replacement line, no marker follows
\* it, and no input line after the malformed line is copied.
C5_Truncation ==
  ScanOver =>
    \A r \in 1..Len(regions) :
      ~PairAfter(regions[r].trigger) =>
        /\ r = Len(regions)
        /\ i = Len(lines) + 1
        /\ Len(new_lines) = regions[r].out
        /\ origin[Len(origin)] = 0
        /\ StartsWith("    handleControllerError(error, res, 'AiPermissionController.",
                      new_lines[Len(new_lines)])
        /\ \A p \in CopiedPositions : origin[p] < regions[r].trigger + 1

\* after a first repair that found its pair, a second one does not, although
\* a single lone brace and another line follow its malformed line
C5_Witness ==
  /\ ScanOver
  /\ Len(regions) = 2
  /\ regions[1].closed
  /\ ~PairAfter(regions[2].trigger)
  /\ regions[2].trigger + 3 <= Len(lines)
  /\ \E k \in (regions[2].trigger + 2)..Len(lines) : LoneAt(lines, k)

\* the expected output of the specification's example
ExampleOutputAsSpecified ==
  << HeaderGet, "  try {", "    doWork();", "  } catch (error) {",
     "    handleControllerError(error, res, 'Controller.getItem');",
     "  }", "}" >>

\* the output of the script on the example
ExampleOutput ==
  << HeaderGet, "  try {", "    doWork();", "  } catch (error) {",
     "    handleControllerError(error, res, 'AiPermissionController.getItem');",
     "  }", "}" >>

\* C6 as stated: on the nine lines of the example the scan writes the seven
\* lines of the specification, the fifth naming 'Controller.getItem'.
C6_ExampleAsSpecified ==
  (pc = "done" /\ content = Join(ExampleInput)) =>
    (new_lines = ExampleOutputAsSpecified /\ file = Join(ExampleOutputAsSpecified))

\* C6 (amended): on the nine lines of the example the scan writes seven
\* lines, the fifth naming 'AiPermissionController.getItem', then one
\* "  }" and the final "}".
C6_Example ==
  (pc = "done" /\ content = Join(ExampleInput)) =>
    (new_lines = ExampleOutput /\ file = Join(ExampleOutput))

\* a run on the example is over
C6_Witness ==
  /\ pc = "done"
  /\ run = 1
  /\ lines = ExampleInput
  /\ Len(new_lines) = 7

\* C7: partition.  No index is read as the current line twice; repaired
\* regions follow one another without overlap; a region ends at the second
\* brace of its pair, or at the end of the input when no pair is found; and
\* after the scan every input index is either copied, once, or inside
\* exactly one region, never both.
C7_Partition ==
  /\ \A a, b \in 1..Len(visited) : a # b => visited[a][1] # visited[b][1]
  /\ \A r, q \in 1..Len(regions) :
        r < q => regions[r].last < regions[q].trigger
  /\ \A p, q \in CopiedPositions : p # q => origin[p] # origin[q]
  /\ ScanOver =>
        /\ \A r \in 1..Len(regions) :
              IF regions[r].closed
              THEN /\ LoneAt(lines, regions[r].last)
                   /\ LoneAt(lines, regions[r].last + 1)
              ELSE regions[r].last = Len(lines) - 1
        /\ \A k \in 0..(Len(lines) - 1) :
              LET copied == \E p \in CopiedPositions : origin[p] = k + 1
                  nreg == Cardinality({ r \in 1..Len(regions) : InRegion(r, k) })
              IN \/ copied /\ nreg = 0
                 \/ ~copied /\ nreg = 1

\* two repairs with copied lines before, between and after them
C7_Witness ==
  /\ ScanOver
  /\ Len(regions) >= 2
  /\ \E p, q, u \in CopiedPositions :
        /\ origin[p] < regions[1].trigger + 1
        /\ origin[q] > regions[1].last + 1
        /\ origin[q] < regions[2].trigger + 1
        /\ origin[u] > regions[2].last + 1

\* no line of the text read holds the malformed signature
NoSignature ==
  \A k \in 1..Len(lines) : ~Contains("handleControllerError(error, res, ',", lines[k])

\* C8: without a line holding the malformed signature the inner loop is never
\* entered, the output lines are the input lines, and the text written is
\* the text read.
C8_NoRepairWithoutMalformed ==
  (pc # "start" /\ NoSignature) =>
    /\ pc # "skip"
    /\ regions = <<>>
    /\ ScanOver => new_lines = lines
    /\ pc = "done" => file = content

\* a run is over on a text without the signature that holds a header, a
\* corrected call and three lone braces in a row
C8_Witness ==
  /\ pc = "done"
  /\ NoSignature
  /\ HeaderIdx # {}
  /\ \E k \in 1..Len(lines) : Contains("handleControllerError(", lines[k])
  /\ \E k \in 1..(Len(lines) - 2) :
        LoneAt(lines, k) /\ LoneAt(lines, k + 1) /\ LoneAt(lines, k + 2)

\* C9: all-or-nothing commit.  Once the text is read, the file holds the
\* text read until the run is over, and then the complete corrected text.
C9_AllOrNothing ==
  /\ pc \in {"scan", "skip", "open", "write"} => file = content
  /\ pc = "done" => file = Join(new_lines)

\* C10: while the inner loop runs, current_function does not change and the
\* only line added to the output is the one marker of the step that leaves
\* the loop; no repair is started.
C10_RepairingIgnoresContent ==
  [][pc = "skip" =>
       /\ current_function' = current_function
       /\ Len(regions') = Len(regions)
       /\ \/ new_lines' = new_lines
          \/ pc' = "scan" /\ new_lines' = Append(new_lines, "  }")]_vars

\* the inner loop has discarded a header line naming another function and a
\* line holding the malformed signature
C10_Witness ==
  /\ pc = "skip"
  /\ current_function # None
  /\ \E v \in Visits :
        /\ v[2] = "skip"
        /\ FuncMatch(lines[v[1] + 1]) # None
        /\ FuncMatch(lines[v[1] + 1]) # current_function
  /\ \E v \in Visits :
        /\ v[2] = "skip"
        /\ Contains(Signature, lines[v[1] + 1])

\* indices (0-based) after the trigger of the running repair at which a pair
\* of lone braces starts
PairStarts ==
  { j \in (regions[Len(regions)].trigger + 1)..(Len(lines) - 2) :
      LoneAt(lines, j + 1) /\ LoneAt(lines, j + 2) }

\* C11: exit-marker protocol.  A step of the inner loop at index i leaves the
\* loop exactly when lines i and i+1 are both lone braces; i is then the
\* smallest such index after the trigger, one "  }" is appended and the outer
\* loop goes on at i+2.  At any other index, a lone brace without a second
\* one or the last line included, nothing is appended and the loop goes on
\* at i+1.
C11_ExitMarkerProtocol ==
  [][pc = "skip" =>
       IF i \in PairStarts
       THEN /\ \A j \in PairStarts : i <= j
            /\ pc' = "scan"
            /\ i' = i + 2
            /\ new_lines' = Append(new_lines, "  }")
       ELSE /\ new_lines' = new_lines
            /\ i < Len(lines) => (pc' = "skip" /\ i' = i + 1)]_vars

\* a repair has just ended at a pair that a third lone brace follows, after
\* discarding a lone brace that no lone brace followed
C11_Witness ==
  /\ pc = "scan"
  /\ Len(regions) >= 1
  /\ regions[Len(regions)].closed
  /\ i = regions[Len(regions)].last + 1
  /\ i < Len(lines)
  /\ LoneAt(lines, i + 1)
  /\ \E k \in (regions[Len(regions)].trigger + 2)..(regions[Len(regions)].last - 1) :
        LoneAt(lines, k) /\ ~LoneAt(lines, k + 1)

\* C12: termination and forward-only scan.  The scan starts at index 0;
\* every step of the outer and of the inner loop increases the index; every
\* index read as the current line, and the second brace of every pair found
\* by the look-ahead, lies within the input; and every scan that has started
\* comes to its end.
C12_ForwardOnlyTermination ==
  /\ [][/\ pc = "start" => i' = 0
        /\ pc \in {"scan", "skip"} => (i' > i \/ (pc' = "open" /\ i' = i))]_vars
  /\ [](\A k \in 1..Len(visited) :
          visited[k][1] >= 0 /\ visited[k][1] <= Len(lines) - 1)
  /\ [](\A r \in 1..Len(regions) : regions[r].last <= Len(lines) - 1)
  /\ [](i >= 0 /\ i <= Len(lines) + 1)
  /\ (pc = "scan" ~> ScanOver)

\* a scan is over that went through both loops, found a pair by the
\* look-ahead and then ran off the end of the input inside the inner loop
C12_Witness ==
  /\ ScanOver
  /\ i = Len(lines) + 1
  /\ Len(regions) >= 2
  /\ regions[1].closed
  /\ \E v \in Visits : v[2] = "skip" /\ v[1] = Len(lines) - 1
  /\ \E v \in Visits : v[2] = "scan" /\ v[1] = 0

\* C13: the output is free of the malformed signature.  No line of the
\* output accumulator holds the malformed call fragment, be it a copied
\* line, a marker or a replacement line, whatever the context it names.
C13_OutputFreeOfSignature ==
  \A k \in 1..Len(new_lines) :
    ~Contains("handleControllerError(error, res, ',", new_lines[k])

\* the output holds a replacement naming None, a replacement naming a
\* function, a marker and a copied line
C13_Witness ==
  /\ ScanOver
  /\ \E k \in 1..Len(new_lines) : new_lines[k] = LabelLine("None")
  /\ \E k \in 1..Len(new_lines) : new_lines[k] = LabelLine("getItem")
  /\ \E k \in 1..Len(new_lines) : origin[k] = -1
  /\ CopiedPositions # {}

\* C14: the output never outgrows the input.  Whenever the outer loop is
\* about to test its condition the output has at most i lines; after the
\* scan it has at most as many lines as the input; a repair that found its
\* pair took at least three input lines and wrote exactly two, and after
\* such a repair the output is shorter than the input.
C14_OutputNeverOutgrowsInput ==
  /\ pc = "scan" => Len(new_lines) <= i
  /\ ScanOver => Len(new_lines) <= Len(lines)
  /\ \A r \in 1..Len(regions) :
        regions[r].closed =>
          /\ regions[r].last - regions[r].trigger + 1 >= 3
          /\ Cardinality(EmittedFor(r)) = 2
  /\ (ScanOver /\ \E r \in 1..Len(regions) : regions[r].closed)
        => Len(new_lines) < Len(lines)

\* a scan is over in which a repair took exactly three lines and every other
\* line was copied
C14_Witness ==
  /\ ScanOver
  /\ Len(regions) = 1
  /\ regions[1].closed
  /\ regions[1].last - regions[1].trigger + 1 = 3
  /\ Len(new_lines) = Len(lines) - 1
  /\ Len(lines) >= 4

\* C15: repair with no context seen.  When the outer loop reads a line that
\* holds the malformed signature while current_function is None, and the
\* line is no header, it appends the one replacement line naming
\* 'AiPermissionController.None', leaves current_function None and enters
\* the inner loop at the next index.
C15_RepairWithoutContext ==
  [][(/\ pc = "scan"
      /\ i < Len(lines)
      /\ current_function = None
      /\ FuncMatch(lines[i + 1]) = None
      /\ Contains("handleControllerError(error, res, ',", lines[i + 1]))
     => /\ new_lines' = Append(new_lines,
             "    handleControllerError(error, res, 'AiPermissionController.None');")
        /\ current_function' = None
        /\ pc' = "skip"
        /\ i' = i + 1]_vars

\* a repair without context has found its pair and the outer loop goes on
\* copying, still without context
C15_Witness ==
  /\ pc = "scan"
  /\ current_function = None
  /\ Len(regions) = 1
  /\ regions[1].closed
  /\ new_lines[regions[1].out] = LabelLine("None")
  /\ Len(new_lines) >= 4

\* C16: header and signature on the same line.  When the outer loop reads a
\* line that matches the header pattern and holds the malformed signature,
\* current_function becomes the name captured from that line, the one line
\* appended is the replacement naming it (the header line is not copied),
\* and the inner loop is entered.
C16_HeaderAndSignatureOnOneLine ==
  [][(/\ pc = "scan"
      /\ i < Len(lines)
      /\ FuncMatch(lines[i + 1]) # None
      /\ Contains("handleControllerError(error, res, ',", lines[i + 1]))
     => /\ current_function' = FuncMatch(lines[i + 1])
        /\ new_lines' = Append(new_lines, LabelLine(FuncMatch(lines[i + 1])[1]))
        /\ pc' = "skip"
        /\ i' = i + 1]_vars

\* the inner loop was entered from a line that is a header and holds the
\* signature, read after a header naming another function
C16_Witness ==
  /\ pc = "skip"
  /\ Len(regions) >= 1
  /\ FuncMatch(lines[regions[Len(regions)].trigger + 1]) = <<"both">>
  /\ current_function = <<"both">>
  /\ \E v \in Visits :
        /\ v[2] = "scan"
        /\ v[1] < regions[Len(regions)].trigger
        /\ FuncMatch(lines[v[1] + 1]) = <<"getItem">>
  /\ new_lines[Len(new_lines)] = LabelLine("both")
====
